---- MODULE Spec2Model ----
(***************************************************************************)
(* Model of the batch path of dscribe's descriptor creation:               *)
(*   CoulombMatrix.create      (src/dscribe/descriptors/coulombmatrix.py)  *)
(*   Descriptor.create_parallel and its nested create_multiple             *)
(*                             (src/dscribe/descriptors/descriptor.py)     *)
(*                                                                         *)
(* One behaviour is one call create(system, n_jobs, backend=backend) on a  *)
(* descriptor whose sparse flag is is_sparse.  The worker tasks run        *)
(* create_multiple one item at a time and interleave freely.  joblib is    *)
(* not part of the repository: Parallel is modelled by its contract, it    *)
(* runs every task, re-raises the error of a failed task, and hands the    *)
(* (result, index) pairs back in an order the code does not control.       *)
(*                                                                         *)
(* The per-item function (create_single) is not in the sources either: an  *)
(* item either raises or yields a block of item.rows rows and NFeatures    *)
(* columns whose row l (0-based) holds item.id in column 0, l in column 1  *)
(* and zero elsewhere.  Zero cells are not stored in the coordinate form   *)
(* of a block.                                                             *)
(***************************************************************************)
EXTENDS Integers, Sequences, FiniteSets, TLC

\* ---------------------------------------------------------------- bounds
MaxLen == 3        \* longest batch
MaxJobs == 3       \* largest n_jobs
MaxNeg == 1        \* n_jobs ranges over -MaxNeg .. MaxJobs
MaxRows == 2       \* most rows one item's block has
NFeatures == 2     \* get_number_of_features()

VARIABLES
    call_no,        \* 1 | 2: which of the caller's successive calls this is
    first,          \* what the first call left behind, once a second one began
    inp,            \* the batch: inp[p] is the p-th system, wrapped as (i_sys,)
    n_jobs,         \* argument n_jobs
    backend,        \* argument backend
    is_sparse,      \* self._sparse
    pc,             \* "init" | "running" | "done": position of the calling thread
    output_sizes,   \* the list create computes (line 80)
    tasks,          \* the worker tasks handed to Parallel, in submission order
    fcalls,         \* fcalls[p]: how often func was invoked on item p
    raised,         \* ids of the items for which func raised
    returned_order, \* task indices in the order Parallel handed the pairs back
    vec_order,      \* task indices of vec_lists when the index is dropped (line 258)
    outcome,        \* "none" | "return" | "raise"
    error,          \* the error the call raised
    result          \* the matrix the call returned

vars == <<call_no, first, inp, n_jobs, backend, is_sparse, pc, output_sizes, tasks, fcalls,
          raised, returned_order, vec_order, outcome, error, result>>

\* ------------------------------------------------------------ plain values
Min(a, b) == IF a < b THEN a ELSE b

Max(a, b) == IF a > b THEN a ELSE b

\* range(n): empty when n <= 0
Range(n) == 0 .. (n - 1)

NoError == [type |-> "", origin |-> "", item |-> 0]

Err(type, origin, item) == [type |-> type, origin |-> origin, item |-> item]

\* A row of np.empty that nothing has written: its contents are unspecified.
Uninit == [c \in 1 .. NFeatures |-> -1]

NoMatrix == [kind |-> "none", nrows |-> 0, ncols |-> 0, rows |-> <<>>,
             coo |-> <<>>, cells |-> {}]

Backends == {"loky", "threading", "multiprocessing"}

Items(p) == {[id |-> p, rows |-> r, raises |-> FALSE] : r \in 0 .. MaxRows}
              \cup {[id |-> p, rows |-> 0, raises |-> TRUE]}

Batches == UNION {{s \in [1 .. n -> UNION {Items(p) : p \in 1 .. n}] :
                      \A p \in 1 .. n : s[p].id = p} : n \in 0 .. MaxLen}

\* --------------------------------------------------------- python helpers
\* divmod(a, b) for a >= 0 and b # 0, with Python's floor semantics
PyDivMod(a, b) ==
    IF b > 0 THEN <<a \div b, a % b>>
    ELSE LET q == -((a + (-b) - 1) \div (-b)) IN <<q, a - q * b>>

\* one bound of a slice, as Python normalises it against a length
SliceBound(x, len) == IF x < 0 THEN Max(x + len, 0) ELSE Min(x, len)

\* s[lo:hi]
PySlice(s, lo, hi) ==
    LET a == SliceBound(lo, Len(s))
        b == SliceBound(hi, Len(s))
    IN IF a < b THEN SubSeq(s, a + 1, b) ELSE <<>>

RECURSIVE Concat(_)
\* np.concatenate of a list of sequences, in list order
Concat(ss) == IF ss = <<>> THEN <<>> ELSE Head(ss) \o Concat(Tail(ss))

RECURSIVE SumLens(_)
SumLens(ss) == IF ss = <<>> THEN 0 ELSE Len(Head(ss)) + SumLens(Tail(ss))

\* ------------------------------------------------- the per-item function
\* the dense block func returns for an item: item.rows rows of NFeatures cells
DenseBlock(item) ==
    [l \in 1 .. item.rows |->
        [c \in 1 .. NFeatures |->
            IF c = 1 THEN item.id ELSE IF c = 2 THEN l - 1 ELSE 0]]

\* coo_matrix(block): the nonzero cells in row-major order, 0-based row and col;
\* src remembers the item the cell came from
CooBlock(item) ==
    LET blk == DenseBlock(item)
        all == [n \in 1 .. (item.rows * NFeatures) |->
                  [data |-> blk[((n - 1) \div NFeatures) + 1][((n - 1) % NFeatures) + 1],
                   row |-> (n - 1) \div NFeatures,
                   col |-> (n - 1) % NFeatures,
                   src |-> item.id]]
        NonZero(e) == e.data # 0
    IN SelectSeq(all, NonZero)

\* i_row + offset
ShiftRows(entries, off) ==
    [n \in 1 .. Len(entries) |-> [entries[n] EXCEPT !.row = @ + off]]

RECURSIVE SumAt(_, _, _)
\* the value a coordinate list gives cell (r, c): duplicates add up
SumAt(entries, r, c) ==
    IF entries = <<>> THEN 0
    ELSE (IF Head(entries).row = r /\ Head(entries).col = c
          THEN Head(entries).data ELSE 0) + SumAt(Tail(entries), r, c)

\* coo.tocsr(): one stored value per occupied cell, duplicates summed
ToCsr(entries) ==
    {<<entries[n].row, entries[n].col, SumAt(entries, entries[n].row, entries[n].col)>> :
        n \in 1 .. Len(entries)}

\* csr.toarray()
ToDense(m) ==
    [l \in 1 .. m.nrows |->
        [c \in 1 .. m.ncols |->
            IF \E t \in m.cells : t[1] = l - 1 /\ t[2] = c - 1
            THEN (CHOOSE t \in m.cells : t[1] = l - 1 /\ t[2] = c - 1)[3]
            ELSE 0]]

\* ------------------------------------------------------- create_multiple
\* lines 205-219: the output a task starts with
InitTask(arguments, n_desc, index, sparse) ==
    [index |-> index, args |-> arguments, n_desc |-> n_desc, pos |-> 0,
     status |-> "running", error |-> NoError, offset |-> 0,
     results |-> IF sparse THEN <<>> ELSE [l \in 1 .. n_desc |-> Uninit],
     coo |-> <<>>, appended |-> 0, written |-> {}]

\* SetRows with the running offset never advanced
SetRowsNoAdvance(t, item) ==
    LET r == item.rows
        lo == SliceBound(t.offset, Len(t.results))
        hi == SliceBound(t.offset + r, Len(t.results))
        n == IF lo < hi THEN hi - lo ELSE 0
        blk == DenseBlock(item)
    IN IF n = r \/ r = 1
       THEN [t EXCEPT !.results = [l \in 1 .. Len(t.results) |->
                                     IF l > lo /\ l <= lo + n
                                     THEN blk[IF r = 1 THEN 1 ELSE l - lo]
                                     ELSE t.results[l]],
                      !.written = @ \cup {<<item.id, l>> : l \in (lo + 1) .. (lo + n)},
                      !.pos = @ + 1]
       ELSE [t EXCEPT !.status = "failed",
                      !.error = Err("ValueError", "setitem", item.id)]

\* results[offset:offset+i_out.shape[0], :] = i_out
\* The slice is clipped to the buffer.  A block of as many rows as the slice is
\* copied; a one-row block broadcasts over the slice (also over an empty one);
\* anything else cannot be broadcast and raises ValueError.
SetRows(t, item) ==
    LET r == item.rows
        lo == SliceBound(t.offset, Len(t.results))
        hi == SliceBound(t.offset + r, Len(t.results))
        n == IF lo < hi THEN hi - lo ELSE 0
        blk == DenseBlock(item)
    IN IF n = r \/ r = 1
       THEN [t EXCEPT !.results = [l \in 1 .. Len(t.results) |->
                                     IF l > lo /\ l <= lo + n
                                     THEN blk[IF r = 1 THEN 1 ELSE l - lo]
                                     ELSE t.results[l]],
                      !.written = @ \cup {<<item.id, l>> : l \in (lo + 1) .. (lo + n)},
                      !.offset = @ + r,
                      !.pos = @ + 1]
       ELSE [t EXCEPT !.status = "failed",
                      !.error = Err("ValueError", "setitem", item.id)]

\* StepTask with the error of func caught and the item skipped
StepTaskSwallow(t, sparse) ==
    LET item == t.args[t.pos + 1]
    IN IF item.raises
       THEN [t EXCEPT !.pos = @ + 1]
       ELSE IF sparse
            THEN [t EXCEPT !.coo = @ \o ShiftRows(CooBlock(item), t.offset),
                           !.appended = @ + 1,
                           !.pos = @ + 1]
            ELSE SetRows(t, item)

\* lines 221-233: one pass of the loop, for the item at position t.pos + 1.
\* No try/except: an error of func ends the task with that error.
StepTask(t, sparse) ==
    LET item == t.args[t.pos + 1]
    IN IF item.raises
       THEN [t EXCEPT !.status = "failed",
                      !.error = Err("ComputeError", "func", item.id)]
       ELSE IF sparse
            THEN [t EXCEPT !.coo = @ \o ShiftRows(CooBlock(item), t.offset),
                           !.appended = @ + 1,
                           !.pos = @ + 1]
            ELSE SetRows(t, item)

\* lines 241-247: after the loop.  np.concatenate of an empty list raises
\* ValueError; coo_matrix raises ValueError for a row index outside the shape.
FinishTask(t, sparse) ==
    IF ~sparse THEN [t EXCEPT !.status = "done"]
    ELSE IF t.appended = 0
         THEN [t EXCEPT !.status = "failed",
                        !.error = Err("ValueError", "task_concatenate", 0)]
    ELSE IF \E n \in 1 .. Len(t.coo) : t.coo[n].row >= t.n_desc
         THEN [t EXCEPT !.status = "failed",
                        !.error = Err("ValueError", "task_coo_matrix", 0)]
    ELSE [t EXCEPT !.status = "done"]

\* the PartialResult a finished task returns with its index
PartOf(t) ==
    [index |-> t.index, nrows |-> t.n_desc, ncols |-> NFeatures,
     rows |-> t.results, coo |-> t.coo]

RECURSIVE RunTask(_, _)
\* a task run to its end
RunTask(t, sparse) ==
    IF t.status # "running" THEN t
    ELSE IF t.pos < Len(t.args) THEN RunTask(StepTask(t, sparse), sparse)
    ELSE FinishTask(t, sparse)

\* CreateOutputSizes with the whole remainder given to the last job
CreateOutputSizesLast(system, nj) ==
    LET n_samples == Len(system)
        k == PyDivMod(n_samples, nj)[1]
        m == PyDivMod(n_samples, nj)[2]
    IN [j \in 1 .. Max(nj, 0) |-> IF j = nj THEN k + m ELSE k]

\* ------------------------------------------------------------ partitioning
\* coulombmatrix.py lines 77-80: the sizes create precomputes for the jobs
CreateOutputSizes(system, nj) ==
    LET n_samples == Len(system)
        k == PyDivMod(n_samples, nj)[1]
        m == PyDivMod(n_samples, nj)[2]
    IN [j \in 1 .. Max(nj, 0) |->
          Len(PySlice(system, (j - 1) * k + Min(j - 1, m), j * k + Min(j, m)))]

\* Jobs without the min(i, m) terms: the remainder of the division is dropped
JobsNoRemainder(inpt, nj) ==
    LET k == PyDivMod(Len(inpt), nj)[1]
    IN [j \in 1 .. Max(nj, 0) |-> PySlice(inpt, (j - 1) * k, j * k)]

\* descriptor.py lines 191-195: the jobs, one slice of inp per i in range(n_jobs)
Jobs(inpt, nj) ==
    LET n_samples == Len(inpt)
        k == PyDivMod(n_samples, nj)[1]
        m == PyDivMod(n_samples, nj)[2]
    IN [j \in 1 .. Max(nj, 0) |->
          PySlice(inpt, (j - 1) * k + Min(j - 1, m), j * k + Min(j, m))]

\* ValidBackend without the check
ValidBackendAny(b) == TRUE

\* lines 183-184
ValidBackend(b) == b \in {"loky", "threading"}

\* Dispatch that submits no task for an empty job
DispatchNonEmpty(jobs, sizes, sparse) ==
    LET keep == SelectSeq([j \in 1 .. Min(Len(jobs), Len(sizes)) |-> j],
                          LAMBDA j : jobs[j] # <<>>)
    IN [n \in 1 .. Len(keep) |-> InitTask(jobs[keep[n]], sizes[keep[n]], n - 1, sparse)]

\* line 250: enumerate(zip(jobs, output_sizes)), one task per pair, index from 0
Dispatch(jobs, sizes, sparse) ==
    [j \in 1 .. Min(Len(jobs), Len(sizes)) |-> InitTask(jobs[j], sizes[j], j - 1, sparse)]

\* create up to the moment the tasks are handed to Parallel:
\* coulombmatrix.py lines 73-83, descriptor.py lines 182-199 and 249-250
StartCall(system, nj, bk, sparse) ==
    IF nj = 0
    THEN [error |-> Err("ZeroDivisionError", "create_divmod", 0),
          output_sizes |-> <<>>, tasks |-> <<>>]
    ELSE IF ~ValidBackend(bk)
    THEN [error |-> Err("ValueError", "backend_check", 0),
          output_sizes |-> CreateOutputSizes(system, nj), tasks |-> <<>>]
    ELSE [error |-> NoError,
          output_sizes |-> CreateOutputSizes(system, nj),
          tasks |-> Dispatch(Jobs(system, nj), CreateOutputSizes(system, nj), sparse)]

\* --------------------------------------------------------------- assembly
\* Reorder without the sort
ReorderNever(bk, vec_lists) == vec_lists

\* lines 254-255: the order is restored for the threading backend only
Reorder(bk, vec_lists) ==
    IF bk = "threading"
    THEN SortSeq(vec_lists, LAMBDA a, b : a.index < b.index)
    ELSE vec_lists

RECURSIVE SparseRows(_, _)
\* lines 266-279: every part's rows shifted by the rows of the parts before it
SparseRows(parts, row_offset) ==
    IF parts = <<>> THEN <<>>
    ELSE ShiftRows(Head(parts).coo, row_offset)
           \o SparseRows(Tail(parts), row_offset + Head(parts).nrows)

RECURSIVE SumRows(_)
\* n_descs of lines 265-267
SumRows(parts) == IF parts = <<>> THEN 0 ELSE Head(parts).nrows + SumRows(Tail(parts))

\* lines 260-298 on the list whose index tags have been dropped
Merge(parts, sparse) ==
    IF parts = <<>>
    THEN [outcome |-> "raise", result |-> NoMatrix,
          error |-> Err("ValueError", "concatenate", 0)]
    ELSE IF sparse
    THEN [outcome |-> "return", error |-> NoError,
          result |-> [kind |-> "csr", nrows |-> SumRows(parts), ncols |-> NFeatures,
                      rows |-> <<>>, coo |-> SparseRows(parts, 0),
                      cells |-> ToCsr(SparseRows(parts, 0))]]
    ELSE [outcome |-> "return", error |-> NoError,
          result |-> [kind |-> "dense",
                      nrows |-> Len(Concat([j \in 1 .. Len(parts) |-> parts[j].rows])),
                      ncols |-> parts[1].ncols,
                      rows |-> Concat([j \in 1 .. Len(parts) |-> parts[j].rows]),
                      coo |-> <<>>, cells |-> {}]]

Indices(parts) == [j \in 1 .. Len(parts) |-> parts[j].index]

\* the orders in which Parallel may hand back the pairs of n tasks
Orders(n) == {f \in [1 .. n -> 1 .. n] : \A a, b \in 1 .. n : f[a] = f[b] => a = b}

\* the pairs of finished tasks ts, handed back in the order perm
HandBack(ts, perm) == [j \in 1 .. Len(ts) |-> PartOf(ts[perm[j]])]

\* lines 252-298 on the list Parallel returned
Assembled(bk, vec_lists, sparse) == Merge(Reorder(bk, vec_lists), sparse)

\* the whole call as a function of its arguments and of the hand-back order
RunCall(system, nj, bk, sparse, perm) ==
    LET s == StartCall(system, nj, bk, sparse)
        ts == [j \in 1 .. Len(s.tasks) |-> RunTask(s.tasks[j], sparse)]
        bad == {j \in 1 .. Len(ts) : ts[j].status = "failed"}
    IN IF s.error # NoError
       THEN [outcome |-> "raise", error |-> s.error, result |-> NoMatrix]
       ELSE IF bad # {}
       THEN [outcome |-> "raise", result |-> NoMatrix,
             error |-> ts[CHOOSE j \in bad : \A o \in bad : j <= o].error]
       ELSE Assembled(bk, HandBack(ts, perm), sparse)

\* ------------------------------------------------------------- the actions
\* nothing is kept of an earlier call
NoCall == [outcome |-> "none", error |-> NoError, result |-> NoMatrix,
           inp |-> <<>>, is_sparse |-> FALSE]

Init ==
    /\ call_no = 1
    /\ first = NoCall
    /\ inp \in Batches
    /\ n_jobs \in (-MaxNeg) .. MaxJobs
    /\ backend \in Backends
    /\ is_sparse \in BOOLEAN
    /\ pc = "init"
    /\ output_sizes = <<>>
    /\ tasks = <<>>
    /\ fcalls = [p \in 1 .. Len(inp) |-> 0]
    /\ raised = {}
    /\ returned_order = <<>>
    /\ vec_order = <<>>
    /\ outcome = "none"
    /\ error = NoError
    /\ result = NoMatrix

\* create(system, n_jobs, backend=backend) up to the dispatch of the tasks
Call ==
    /\ pc = "init"
    /\ LET s == StartCall(inp, n_jobs, backend, is_sparse)
       IN /\ output_sizes' = s.output_sizes
          /\ tasks' = s.tasks
          /\ error' = s.error
          /\ pc' = IF s.error = NoError THEN "running" ELSE "done"
          /\ outcome' = IF s.error = NoError THEN "none" ELSE "raise"
    /\ UNCHANGED <<call_no, first, inp, n_jobs, backend, is_sparse, fcalls, raised,
                   returned_order, vec_order, result>>

\* Ready for a task that first waits for the task after it (cyclically) to
\* have returned
ReadyWaiting(ts, i) ==
    /\ i \in 1 .. Len(ts)
    /\ ts[i].status = "running"
    /\ ts[(i % Len(ts)) + 1].status = "done"

\* a dispatched task can take its next step whenever it has not yet returned
\* or raised: create_multiple reads its own arguments and nothing else
Ready(ts, i) ==
    /\ i \in 1 .. Len(ts)
    /\ ts[i].status = "running"

\* task i runs one pass of its loop: func on its next item
WorkerStep(i) ==
    /\ pc = "running"
    /\ Ready(tasks, i)
    /\ tasks[i].pos < Len(tasks[i].args)
    /\ LET item == tasks[i].args[tasks[i].pos + 1]
       IN /\ fcalls' = [fcalls EXCEPT ![item.id] = @ + 1]
          /\ raised' = IF item.raises THEN raised \cup {item.id} ELSE raised
    /\ tasks' = [tasks EXCEPT ![i] = StepTask(@, is_sparse)]
    /\ UNCHANGED <<call_no, first, inp, n_jobs, backend, is_sparse, pc, output_sizes,
                   returned_order, vec_order, outcome, error, result>>

\* task i leaves its loop and returns (results, index)
WorkerFinish(i) ==
    /\ pc = "running"
    /\ Ready(tasks, i)
    /\ tasks[i].pos = Len(tasks[i].args)
    /\ tasks' = [tasks EXCEPT ![i] = FinishTask(@, is_sparse)]
    /\ UNCHANGED <<call_no, first, inp, n_jobs, backend, is_sparse, pc, output_sizes, fcalls,
                   raised, returned_order, vec_order, outcome, error, result>>

\* Parallel re-raises the error of a failed task in the calling thread
Raise ==
    /\ pc = "running"
    /\ \E i \in 1 .. Len(tasks) :
          /\ tasks[i].status = "failed"
          /\ error' = tasks[i].error
    /\ pc' = "done"
    /\ outcome' = "raise"
    /\ UNCHANGED <<call_no, first, inp, n_jobs, backend, is_sparse, output_sizes, tasks, fcalls,
                   raised, returned_order, vec_order, result>>

\* AllDone that lets the call go on as soon as one task has returned
AnyDone(ts) == ts = <<>> \/ \E i \in 1 .. Len(ts) : ts[i].status = "done"

\* line 250: Parallel()(...) is a blocking call, it returns its list when every
\* task has returned
AllDone(ts) == \A i \in 1 .. Len(ts) : ts[i].status = "done"

\* Parallel returns the pairs; lines 252-298 build and return the matrix
Assemble ==
    /\ pc = "running"
    /\ AllDone(tasks)
    /\ \E perm \in Orders(Len(tasks)) :
          LET vec_lists == HandBack(tasks, perm)
              a == Assembled(backend, vec_lists, is_sparse)
          IN /\ returned_order' = Indices(vec_lists)
             /\ vec_order' = Indices(Reorder(backend, vec_lists))
             /\ outcome' = a.outcome
             /\ error' = a.error
             /\ result' = a.result
    /\ pc' = "done"
    /\ UNCHANGED <<call_no, first, inp, n_jobs, backend, is_sparse, output_sizes, tasks, fcalls,
                   raised>>

Next ==
    \/ Call
    \/ \E i \in 1 .. Len(tasks) : WorkerStep(i)
    \/ \E i \in 1 .. Len(tasks) : WorkerFinish(i)
    \/ Raise
    \/ Assemble

Spec == Init /\ [][Next]_vars

\* Every invocation of func terminates and the workers are scheduled fairly:
\* a step of the calling thread or of a task that stays possible is taken.
Fairness ==
    /\ WF_vars(Call)
    /\ \A i \in 1 .. MaxJobs : WF_vars(WorkerStep(i)) /\ WF_vars(WorkerFinish(i))
    /\ WF_vars(Raise)
    /\ WF_vars(Assemble)

SpecFair == Init /\ [][Next]_vars /\ Fairness

\* ------------------------------------------------- two successive calls
\* The caller calls create again with the same batch and the same parameters.
\* Everything create and create_parallel built is local to the call that built
\* it (output_sizes, jobs, vec_lists, the tasks' buffers); the descriptor and
\* the caller's list are the only things the second call shares with the first.
Again ==
    /\ pc = "done"
    /\ call_no = 1
    /\ call_no' = 2
    /\ first' = [outcome |-> outcome, error |-> error, result |-> result,
                 inp |-> inp, is_sparse |-> is_sparse]
    /\ pc' = "init"
    /\ output_sizes' = <<>>
    /\ tasks' = <<>>
    /\ fcalls' = [p \in 1 .. Len(inp) |-> 0]
    /\ raised' = {}
    /\ returned_order' = <<>>
    /\ vec_order' = <<>>
    /\ outcome' = "none"
    /\ error' = NoError
    /\ result' = NoMatrix
    /\ UNCHANGED <<inp, n_jobs, backend, is_sparse>>

NextTwice ==
    \/ Next
    \/ Again

SpecTwice == Init /\ [][NextTwice]_vars

\* ------------------------------------------------- the single-system call
\* what create_single hands back for one system: its block, dense or coordinate
SingleBlock(item, sparse) ==
    IF sparse
    THEN [kind |-> "coo", nrows |-> item.rows, ncols |-> NFeatures, rows |-> <<>>,
          coo |-> CooBlock(item), cells |-> ToCsr(CooBlock(item))]
    ELSE [kind |-> "dense", nrows |-> item.rows, ncols |-> NFeatures,
          rows |-> DenseBlock(item), coo |-> <<>>, cells |-> {}]

\* create(system, ...) where system is one Atoms/System object: inp[1] is that
\* system, not a batch of one
InitSingle ==
    /\ call_no = 1
    /\ first = NoCall
    /\ inp \in {<<it>> : it \in Items(1)}
    /\ n_jobs \in (-MaxNeg) .. MaxJobs
    /\ backend \in Backends
    /\ is_sparse \in BOOLEAN
    /\ pc = "init"
    /\ output_sizes = <<>>
    /\ tasks = <<>>
    /\ fcalls = <<0>>
    /\ raised = {}
    /\ returned_order = <<>>
    /\ vec_order = <<>>
    /\ outcome = "none"
    /\ error = NoError
    /\ result = NoMatrix

\* coulombmatrix.py lines 69-71: return self.create_single(system)
CreateSingle ==
    /\ pc = "init"
    /\ fcalls' = [fcalls EXCEPT ![1] = @ + 1]
    /\ raised' = IF inp[1].raises THEN {1} ELSE {}
    /\ outcome' = IF inp[1].raises THEN "raise" ELSE "return"
    /\ error' = IF inp[1].raises THEN Err("ComputeError", "func", 1) ELSE NoError
    /\ result' = IF inp[1].raises THEN NoMatrix ELSE SingleBlock(inp[1], is_sparse)
    /\ pc' = "done"
    /\ UNCHANGED <<call_no, first, inp, n_jobs, backend, is_sparse, output_sizes, tasks,
                   returned_order, vec_order>>

SpecSingle == InitSingle /\ [][CreateSingle]_vars

\* ------------------------------------------------------------- the claims
Returned == pc = "done" /\ outcome = "return"

\* the call got its pairs back from Parallel and went on to lines 252-298
Gathered ==
    /\ pc = "done"
    /\ error.origin \notin {"create_divmod", "backend_check"}
    /\ \A i \in 1 .. Len(tasks) : tasks[i].status = "done"

Chunks == [j \in 1 .. Len(tasks) |-> tasks[j].args]

\* two matrices a caller can tell to be equal: same form, same shape, same
\* values, and no row of unspecified contents
SameMatrix(a, b) ==
    /\ a.kind = b.kind
    /\ a.nrows = b.nrows
    /\ a.ncols = b.ncols
    /\ a.rows = b.rows
    /\ a.cells = b.cells
    /\ \A l \in 1 .. Len(a.rows) : a.rows[l] # Uninit

\* rows of the items before item p
RowsBefore(p) == SumLens([q \in 1 .. (p - 1) |-> DenseBlock(inp[q])])

\* every item returns a block of exactly one row, so that the sizes create
\* precomputes (one row per item of a job) are the rows the jobs produce
OneRowItems == \A p \in 1 .. Len(inp) : ~inp[p].raises /\ inp[p].rows = 1

\* C1: order preservation, on batches of one-row items.  A matrix returned
\* with n_jobs > 1 equals, row for row, the matrix the same batch gives with
\* n_jobs = 1, whatever the backend, the form (dense or sparse) and the order
\* in which the pairs came back.
C1_OrderPreservation ==
    (Returned /\ n_jobs > 1 /\ OneRowItems) =>
        LET serial == RunCall(inp, 1, backend, is_sparse, <<1>>)
        IN /\ serial.outcome = "return"
           /\ SameMatrix(result, serial.result)

\* C2: sparse row offsets.  In a returned sparse matrix every entry of item p
\* lies on a global row in [rows before p, rows before p + rows of p), so no
\* two items share a row.
C2_SparseRowOffsets ==
    (Returned /\ is_sparse) =>
        \A n \in 1 .. Len(result.coo) :
            LET e == result.coo[n]
            IN /\ e.row >= RowsBefore(e.src)
               /\ e.row < RowsBefore(e.src) + inp[e.src].rows

\* C3: partition coverage.  For n_jobs >= 1 the partitioner yields n_jobs
\* chunks, chunk i of size k+1 when i < m and k otherwise (k, m = divmod(N,
\* n_jobs)), their sizes sum to N and their concatenation is the batch; the
\* tasks handed to Parallel hold exactly these chunks.
C3_PartitionCoverage ==
    (n_jobs >= 1) =>
        LET k == Len(inp) \div n_jobs
            m == Len(inp) % n_jobs
            jobs == Jobs(inp, n_jobs)
        IN /\ Len(jobs) = n_jobs
           /\ \A j \in 1 .. n_jobs : Len(jobs[j]) = IF j - 1 < m THEN k + 1 ELSE k
           /\ SumLens(jobs) = Len(inp)
           /\ Concat(jobs) = inp
           /\ (pc = "running" => Chunks = jobs)

C3_Witness ==
    /\ pc = "running"
    /\ n_jobs = 2
    /\ Len(inp) = 3
    /\ Len(Chunks) = 2
    /\ Len(Chunks[1]) = 2
    /\ Len(Chunks[2]) = 1

C5_SparseDenseEquivalence ==
    (Returned /\ is_sparse /\ OneRowItems) =>
        LET dense == RunCall(inp, n_jobs, backend, FALSE,
                             [j \in 1 .. Len(returned_order) |-> returned_order[j] + 1])
        IN /\ dense.outcome = "return"
           /\ dense.result.nrows = result.nrows
           /\ dense.result.ncols = result.ncols
           /\ dense.result.rows = ToDense(result)

C7_EmptyBatch ==
    (pc = "done" /\ Len(inp) = 0 /\ n_jobs >= 1 /\ backend \in {"loky", "threading"}) =>
        /\ outcome = "return"
        /\ result.nrows = 0
        /\ result.ncols = NFeatures

C9_InvalidWorkerCount ==
    (pc = "done" /\ n_jobs <= 0 /\ backend \in {"loky", "threading"}) =>
        /\ outcome = "raise"
        /\ error.origin = "create_divmod"
        /\ tasks = <<>>
        /\ result = NoMatrix

\* a task whose items all return, but not n_desc rows in total
Mismatch(t) ==
    /\ \A q \in 1 .. Len(t.args) : ~t.args[q].raises
    /\ t.n_desc # SumLens([q \in 1 .. Len(t.args) |-> DenseBlock(t.args[q])])

\* C10: preallocation mismatch is fatal.  When the items of a task produce a
\* number of rows other than its n_desc the call raises, and no returned
\* matrix holds a row of a preallocated buffer that no item wrote.
C10_MismatchIsFatal ==
    /\ (pc = "done" /\ \E i \in 1 .. Len(tasks) : Mismatch(tasks[i]))
          => (outcome = "raise" /\ result = NoMatrix)
    /\ Returned => \A l \in 1 .. Len(result.rows) : result.rows[l] # Uninit

\* C11: exactly-once tasks.  A batch call that passes its checks (n_jobs >= 1,
\* valid backend) creates exactly n_jobs tasks, the j-th tagged j - 1, and the
\* list the assembly works on when the call returns holds each of the indices
\* 0 .. n_jobs - 1 exactly once.
C11_ExactlyOnceTasks ==
    /\ (pc # "init" /\ n_jobs >= 1 /\ backend \in {"loky", "threading"}) =>
          /\ Len(tasks) = n_jobs
          /\ \A j \in 1 .. Len(tasks) : tasks[j].index = j - 1
    /\ (Returned /\ n_jobs >= 1) =>
          /\ Len(returned_order) = n_jobs
          /\ Len(vec_order) = n_jobs
          /\ \A x \in 0 .. (n_jobs - 1) :
                /\ Cardinality({j \in 1 .. Len(returned_order) : returned_order[j] = x}) = 1
                /\ Cardinality({j \in 1 .. Len(vec_order) : vec_order[j] = x}) = 1

C11_Witness ==
    /\ Returned
    /\ n_jobs = 3
    /\ Len(inp) = 2
    /\ returned_order = <<1, 2, 0>>

\* C12: fan-in barrier.  The call has its list back from Parallel, assembles
\* and returns a matrix only when every one of its tasks has run through all of
\* its items and returned without error; while a task is unfinished nothing is
\* assembled or returned.
C12_FanInBarrier ==
    /\ (Returned \/ Len(returned_order) > 0) =>
          \A i \in 1 .. Len(tasks) :
              /\ tasks[i].status = "done"
              /\ tasks[i].pos = Len(tasks[i].args)
    /\ (\E i \in 1 .. Len(tasks) : tasks[i].status # "done") =>
          /\ result = NoMatrix
          /\ returned_order = <<>>
          /\ vec_order = <<>>

C12_Witness ==
    /\ Returned
    /\ n_jobs = 2
    /\ Len(inp) = 3
    /\ \A i \in 1 .. Len(tasks) : tasks[i].pos >= 1

\* the values of a matrix, row by row, whatever its form
Values(m) == IF m.kind = "dense" THEN m.rows ELSE ToDense(m)

\* C13: single-item shortcut (checked under SpecSingle).  create on one system
\* invokes func exactly once and creates no job and no task; and, for a system
\* of one row, n_jobs >= 1 and a valid backend, what it returns has the values
\* of the single row create returns for the batch [system] with the same
\* n_jobs and backend.
C13_SingleItemShortcut ==
    (pc = "done") =>
        /\ fcalls = <<1>>
        /\ tasks = <<>>
        /\ output_sizes = <<>>
        /\ (outcome = "return" /\ inp[1].rows = 1 /\ n_jobs >= 1
              /\ backend \in {"loky", "threading"}) =>
              LET batch == RunCall(inp, n_jobs, backend, is_sparse,
                                   [j \in 1 .. n_jobs |-> j])
              IN /\ batch.outcome = "return"
                 /\ batch.result.nrows = 1
                 /\ Values(batch.result) = Values(result)

\* rows of the items before position q of a task's chunk
RowsBeforeInChunk(t, q) == SumLens([x \in 1 .. (q - 1) |-> DenseBlock(t.args[x])])

\* C14: disjoint dense writes.  On the dense path every task has a buffer of
\* its own of n_desc rows; the item at position j of its chunk writes exactly
\* the rows [sum_{i<j} r_i, sum_{i<=j} r_i) of that buffer (those of them the
\* buffer has), so a buffer row has at most one writer, and a buffer is written
\* by the items of its own task only, however the tasks interleave.
C14_DisjointDenseWrites ==
    (~is_sparse) =>
        \A i \in 1 .. Len(tasks) :
            LET t == tasks[i]
            IN /\ Len(t.results) = t.n_desc
               /\ \A q \in 1 .. t.pos :
                     {w[2] : w \in {x \in t.written : x[1] = t.args[q].id}}
                        = ((RowsBeforeInChunk(t, q) + 1) ..
                              (RowsBeforeInChunk(t, q) + t.args[q].rows))
                            \cap (1 .. t.n_desc)
               /\ \A l \in 1 .. t.n_desc :
                     Cardinality({w \in t.written : w[2] = l}) <= 1
               /\ \A w \in t.written :
                     \E q \in 1 .. t.pos : t.args[q].id = w[1]
               /\ \A l \in 1 .. t.n_desc :
                     (t.results[l] # Uninit) <=> (\E w \in t.written : w[2] = l)

C14_Witness ==
    /\ ~is_sparse
    /\ pc = "running"
    /\ Len(tasks) = 2
    /\ tasks[1].written = {<<1, 1>>, <<2, 2>>}
    /\ tasks[2].written = {<<3, 1>>}
    /\ tasks[1].status = "running"

\* C15: preallocation sizes agree with the partition.  For n_jobs >= 1 the
\* list output_sizes that create computes has n_jobs entries and entry i is
\* the number of items of job i of create_parallel's own partition; each task
\* preallocates that many rows, and when every item yields one row a task that
\* has finished its chunk has written each of its rows exactly once.
C15_SizesAgreeWithPartition ==
    (n_jobs >= 1) =>
        /\ Len(CreateOutputSizes(inp, n_jobs)) = n_jobs
        /\ Len(Jobs(inp, n_jobs)) = n_jobs
        /\ \A j \in 1 .. n_jobs :
              CreateOutputSizes(inp, n_jobs)[j] = Len(Jobs(inp, n_jobs)[j])
        /\ (pc # "init") => output_sizes = CreateOutputSizes(inp, n_jobs)
        /\ \A j \in 1 .. Len(tasks) :
              /\ tasks[j].n_desc = output_sizes[j]
              /\ tasks[j].args = Jobs(inp, n_jobs)[j]
              /\ tasks[j].n_desc = Len(tasks[j].args)
              /\ (~is_sparse /\ OneRowItems /\ tasks[j].status = "done") =>
                    \A l \in 1 .. tasks[j].n_desc :
                        /\ Cardinality({w \in tasks[j].written : w[2] = l}) = 1
                        /\ tasks[j].results[l] = DenseBlock(tasks[j].args[l])[1]

C15_Witness ==
    /\ Returned
    /\ ~is_sparse
    /\ OneRowItems
    /\ Len(inp) = 3
    /\ n_jobs = 2
    /\ output_sizes = <<2, 1>>
    /\ tasks[1].written = {<<1, 1>>, <<2, 2>>}
    /\ tasks[2].written = {<<3, 1>>}

\* C16: more workers than items.  A batch with 0 < N < n_jobs, of items that
\* each yield one row, is returned as the matrix of exactly the N items' rows in
\* batch order, dense or sparse: the jobs that got no item finish without
\* error and add no row.
C16_MoreWorkersThanItems ==
    (pc = "done" /\ Len(inp) > 0 /\ Len(inp) < n_jobs
       /\ backend \in {"loky", "threading"} /\ OneRowItems) =>
        /\ outcome = "return"
        /\ \A i \in 1 .. Len(tasks) : tasks[i].status = "done"
        /\ result.nrows = Len(inp)
        /\ Values(result) = Concat([p \in 1 .. Len(inp) |-> DenseBlock(inp[p])])

\* C17: statelessness.  Between one call and the next the sparsity flag and
\* the caller's batch (length and item order) are what they were, and when two
\* successive calls with the same batch and parameters both return, they
\* return equal matrices.
C17_Stateless ==
    (call_no = 2) =>
        /\ inp = first.inp
        /\ is_sparse = first.is_sparse
        /\ (Returned /\ first.outcome = "return") => SameMatrix(first.result, result)

\* C18: termination.  With every invocation of func terminating and the
\* tasks scheduled fairly, a batch call with n_jobs >= 1 eventually finishes,
\* by returning a matrix or by raising an error: no task waits for another.
C18_Termination ==
    (pc = "init" /\ n_jobs >= 1) ~> (pc = "done" /\ outcome \in {"return", "raise"})

C18_Witness ==
    /\ Returned
    /\ n_jobs = 3
    /\ Len(inp) = 3
    /\ backend = "threading"
    /\ \A i \in 1 .. 3 : tasks[i].status = "done" /\ tasks[i].pos = 1

====
